---- MODULE Spec2Model ----
(***************************************************************************)
(* State machine of the App component (src/App.tsx): the work-item         *)
(* collection, the bulk-edit history, the credential pool, the platform    *)
(* selection, the batch driver (processBatch) and single-item              *)
(* regeneration (handleRegenerate).                                        *)
(*                                                                         *)
(* JavaScript runs these handlers on one thread: a handler, or the         *)
(* continuation of an await, runs to its next await without interleaving,  *)
(* so each action below is one such run.  React applies the functional     *)
(* updaters passed to setFiles in the order they were queued; they are     *)
(* applied here at the point of the call.                                  *)
(*                                                                         *)
(* An optional value (previewFile?, error?, Metadata | null) is a sequence *)
(* of length 0 (absent) or 1 (present).                                    *)
(***************************************************************************)
EXTENDS Integers, Sequences, FiniteSets, TLC

\* ---------------------------------------------------------------- bounds
MaxItems == 1        \* work items ever created in Spec
MaxOps == 2          \* user operations other than upload, undo, clear all, key removal
                     \* and closing the key dialog
BatchItems == 7      \* size of the collection in SpecBatch
MaxLive == 3         \* items of that collection that are not complete
HistoryEdits == 12   \* bulk edits in SpecHistory
KeywordEdits == 3    \* keyword edits (typed or bulk) in SpecKeywords
MaxUpload == 3       \* files in one selection of the upload input in SpecIntake
IntakeItems == 3     \* work items ever created in SpecIntake
RemovalItems == 3    \* work items ever created in SpecRemoval
RemovalEdits == 2    \* bulk edits in SpecRemoval
GoneItems == 2       \* work items ever created in SpecGone
MaxTitle == 4        \* characters of a raw title in SpecPost
MaxRawKeywords == 3  \* keywords of a raw result in SpecPost
MaxDesc == 6         \* characters of a raw description in SpecPost

\* ------------------------------------------------------ program constants
concurrency == 6
HistoryCap == 10

Platforms == {"adobe", "shutterstock", "freepik"}

AllPlatforms == <<"adobe", "shutterstock", "freepik">>

None == <<>>

Some(x) == <<x>>

Min(a, b) == IF a < b THEN a ELSE b

Range(s) == {s[i] : i \in 1..Len(s)}

\* ------------------------------------------------------------ environment
\* Credentials the user may type into the key dialog.
KeyNames == {"k1"}

\* Metadata a provider call may return (already post-processed).
ProviderResults ==
  { [title |-> <<"M", "L">>, description |-> "lake", keywords |-> <<"sky", "blue">>],
    [title |-> <<"F">>, description |-> "fox", keywords |-> <<"fox">>] }

\* message property of the error a provider call may throw ("" = no message)
FailureMessages == {"", "quota"}

\* Files offered to the upload input.
VectorExts == {".ai", ".eps"}

RasterExts == {".jpg", ".jpeg", ".png"}

File(base, ext) == [base |-> base, ext |-> ext]

\* ------------------------------------------------------------------ state
VARIABLES
  files,              \* ProcessedFile[]
  history,            \* ProcessedFile[][]
  apiKeys,            \* string[]
  selectedPlatforms,  \* Platform[]
  isProcessing,
  isModalOpen,
  run,                \* locals of the current (or last) processBatch call
  tasks,              \* per item of run.items: the async task of batch.map
  regens,             \* handleRegenerate calls in flight
  nextId,             \* ids handed out by crypto.randomUUID so far
  used,               \* number of bounded user operations so far
  call                \* one call of a provider adapter's retry wrapper

vars == <<files, history, apiKeys, selectedPlatforms, isProcessing,
          isModalOpen, run, tasks, regens, nextId, used, call>>

NoMetadata == [p \in Platforms |-> None]

NewItem(id, file, preview) ==
  [id |-> id, file |-> file, previewFile |-> preview, status |-> "pending",
   platformMetadata |-> NoMetadata, error |-> None]

\* no wrapper call is modelled alongside the component
NoCall == [pc |-> "none"]

NoRun == [items |-> <<>>, platforms |-> <<>>, keys |-> <<>>, i |-> 0,
          keyIndex |-> 0, rejected |-> FALSE]

Init ==
  /\ files = <<>>
  /\ history = <<>>
  /\ apiKeys \in {<<>>, <<"k1">>}
  /\ selectedPlatforms = AllPlatforms
  /\ isProcessing = FALSE
  /\ isModalOpen = FALSE
  /\ run = NoRun
  /\ tasks = <<>>
  /\ regens = <<>>
  /\ nextId = 0
  /\ used = 0
  /\ call = NoCall

\* ------------------------------------------------- collection operations
Ids(fs) == {fs[i].id : i \in 1..Len(fs)}

ItemOf(fs, id) == fs[CHOOSE i \in 1..Len(fs) : fs[i].id = id]

\* MergeResults that drops what the pass produced
MutMergeResults(meta, results) == meta

\* {...f.platformMetadata, ...metadataResults}
MergeResults(meta, results) ==
  [p \in Platforms |-> IF results[p] # None THEN results[p] ELSE meta[p]]

\* processBatch: {...f, status: 'processing'}
BatchProcessingPatch(f) == [f EXCEPT !.status = "processing"]

\* RegenProcessingPatch without error: undefined
MutRegenProcessingPatch(f) == [f EXCEPT !.status = "processing"]

\* handleRegenerate: {...f, status: 'processing', error: undefined}
RegenProcessingPatch(f) == [f EXCEPT !.status = "processing", !.error = None]

\* CompletePatch that only sets the status
MutCompletePatch(f, results) == [f EXCEPT !.status = "complete"]

\* {...f, status: 'complete', platformMetadata: {...f.platformMetadata, ...metadataResults}}
CompletePatch(f, results) ==
  [f EXCEPT !.status = "complete",
            !.platformMetadata = MergeResults(f.platformMetadata, results)]

\* processBatch, catch: {...f, status: 'error'}
BatchErrorPatch(f) == [f EXCEPT !.status = "error"]

\* handleRegenerate, catch: {...f, status: 'error', error: error.message || "Failed to regenerate"}
RegenErrorPatch(f, message) ==
  [f EXCEPT !.status = "error",
            !.error = Some(IF message # "" THEN message ELSE "Failed to regenerate")]

SetBatchProcessing(fs, id) ==
  [i \in 1..Len(fs) |-> IF fs[i].id = id THEN BatchProcessingPatch(fs[i]) ELSE fs[i]]

SetRegenProcessing(fs, id) ==
  [i \in 1..Len(fs) |-> IF fs[i].id = id THEN RegenProcessingPatch(fs[i]) ELSE fs[i]]

\* an updater closed over the collection of the run's start: items.map(...)
MutSetComplete(fs, id, results) ==
  [i \in 1..Len(fs) |->
     IF fs[i].id = id THEN CompletePatch(fs[i], results)
     ELSE IF i <= Len(run.items) THEN run.items[i] ELSE fs[i]]

\* an updater that puts the item back when the collection does not hold it
MutUpsertComplete(fs, id, results) ==
  IF id \in Ids(fs)
  THEN [i \in 1..Len(fs) |-> IF fs[i].id = id THEN CompletePatch(fs[i], results) ELSE fs[i]]
  ELSE Append(fs, CompletePatch(NewItem(id, File("f", ".png"), None), results))

SetComplete(fs, id, results) ==
  [i \in 1..Len(fs) |-> IF fs[i].id = id THEN CompletePatch(fs[i], results) ELSE fs[i]]

SetBatchError(fs, id) ==
  [i \in 1..Len(fs) |-> IF fs[i].id = id THEN BatchErrorPatch(fs[i]) ELSE fs[i]]

SetRegenError(fs, id, message) ==
  [i \in 1..Len(fs) |-> IF fs[i].id = id THEN RegenErrorPatch(fs[i], message) ELSE fs[i]]

\* ------------------------------------------------------------ batch driver
\* a start that never looks at the pool
MutPoolEmpty(keys) == FALSE

\* if (apiKeys.length === 0) { setIsModalOpen(true); return; }
PoolEmpty(keys) == Len(keys) = 0

\* DrawKey without the increment
MutDrawKey(keys, keyIndex) ==
  [key |-> keys[(keyIndex % Len(keys)) + 1], ctr |-> keyIndex, next |-> keyIndex]

\* const key = apiKeys[keyIndex % apiKeys.length]; keyIndex++;
\* (with an empty pool the index is NaN and the key is undefined)
DrawKey(keys, keyIndex) ==
  [key |-> IF Len(keys) = 0 THEN "undefined" ELSE keys[(keyIndex % Len(keys)) + 1],
   ctr |-> keyIndex, next |-> keyIndex + 1]

IdleTask == [pc |-> "waiting", p |-> 0, results |-> NoMetadata, ctr |-> <<>>, key |-> <<>>]

Settled == {"skipped", "complete", "error"}

\* StartTask without the check for a complete item
MutStartTask(item, st, platforms, keys, pos) ==
  LET d == [key |-> keys[(st.keyIndex % Len(keys)) + 1], ctr |-> st.keyIndex] IN
  IF platforms = <<>>
  THEN [st EXCEPT !.tasks[pos].pc = "complete"]
  ELSE [st EXCEPT !.files = [i \in 1..Len(st.files) |->
                              IF st.files[i].id = item.id
                              THEN [st.files[i] EXCEPT !.status = "processing"]
                              ELSE st.files[i]],
                  !.keyIndex = @ + 1,
                  !.tasks[pos].pc = "call", !.tasks[pos].p = 1,
                  !.tasks[pos].ctr = <<d.ctr>>, !.tasks[pos].key = <<d.key>>]

\* The task of batch.map for one item, run up to its first await.
StartTask(item, st, platforms, keys, pos) ==
  IF item.status = "complete"
  THEN [st EXCEPT !.tasks[pos].pc = "skipped"]
  ELSE LET fs1 == SetBatchProcessing(st.files, item.id) IN
       IF platforms = <<>>
       THEN [st EXCEPT !.files = SetComplete(fs1, item.id, NoMetadata),
                       !.tasks[pos].pc = "complete"]
       ELSE LET d == DrawKey(keys, st.keyIndex) IN
            [st EXCEPT !.files = fs1,
                       !.keyIndex = d.next,
                       !.tasks[pos] = [IdleTask EXCEPT !.pc = "call", !.p = 1,
                                                        !.ctr = <<d.ctr>>,
                                                        !.key = <<d.key>>]]

\* batch.map(async (item) => ...) over items.slice(i, i + concurrency)
RECURSIVE StartChunk(_, _, _, _)
StartChunk(st, r, pos, last) ==
  IF pos > last THEN st
  ELSE StartChunk(StartTask(r.items[pos], st, r.platforms, r.keys, pos), r, pos + 1, last)

\* Promise.race in place of Promise.all: one settled task is enough
MutChunkSettled(ts, i, n) ==
  \E pos \in (i + 1)..Min(i + concurrency, n) : ts[pos].pc \in Settled

\* await Promise.all(...): resolved once every task of the chunk has settled
ChunkSettled(ts, i, n) ==
  \A pos \in (i + 1)..Min(i + concurrency, n) : ts[pos].pc \in Settled

\* for (let i = ...; i < items.length; i += concurrency), from the chunk at i
\* up to the next await that does not resolve at once
RECURSIVE Drive(_, _, _)
Drive(st, r, i) ==
  LET n == Len(r.items)
      st1 == StartChunk([st EXCEPT !.i = i], r, i + 1, Min(i + concurrency, n))
  IN IF i >= n THEN [st EXCEPT !.done = TRUE]
     ELSE IF ChunkSettled(st1.tasks, i, n) THEN Drive(st1, r, i + concurrency)
     ELSE st1

\* what follows the settling of one task: the loop goes on when the chunk is done
Continue(st, r) ==
  IF r.rejected THEN st
  ELSE IF ChunkSettled(st.tasks, st.i, Len(r.items)) THEN Drive(st, r, st.i + concurrency)
  ELSE st

DriverState == [files |-> files, tasks |-> tasks, keyIndex |-> run.keyIndex,
                i |-> run.i, done |-> FALSE]

Commit(st, r) ==
  /\ files' = st.files
  /\ tasks' = st.tasks
  /\ run' = [r EXCEPT !.keyIndex = st.keyIndex, !.i = st.i]
  /\ isProcessing' = ~st.done

\* "Generate Metadata" button: rendered when not processing, disabled without
\* files or platforms
ProcessBatch ==
  /\ UNCHANGED call
  /\ ~isModalOpen
  /\ ~isProcessing
  /\ files # <<>>
  /\ selectedPlatforms # <<>>
  /\ used < MaxOps
  /\ IF PoolEmpty(apiKeys)
     THEN /\ isModalOpen' = TRUE
          /\ UNCHANGED <<files, tasks, run, isProcessing, used>>
     ELSE LET r == [items |-> files, platforms |-> selectedPlatforms, keys |-> apiKeys,
                    i |-> 0, keyIndex |-> 0, rejected |-> FALSE]
              st0 == [files |-> files, tasks |-> [pos \in 1..Len(files) |-> IdleTask],
                      keyIndex |-> 0, i |-> 0, done |-> FALSE]
          IN /\ Commit(Drive(st0, r, 0), r)
             /\ used' = used + 1
             /\ UNCHANGED isModalOpen
  /\ UNCHANGED <<history, apiKeys, selectedPlatforms, regens, nextId>>

\* a task without try/catch: the rejection reaches Promise.all
MutBatchCatch(fs, id) == [files |-> fs, thrown |-> TRUE]

\* the try/catch of one task: what the catch block does to the collection and
\* whether the task's promise rejects
BatchCatch(fs, id) == [files |-> SetBatchError(fs, id), thrown |-> FALSE]

\* generateMetadataForPlatform resolves for the task at pos
BatchOk(pos, m) ==
  /\ UNCHANGED call
  /\ pos \in 1..Len(tasks)
  /\ tasks[pos].pc = "call"
  /\ LET t == tasks[pos]
         item == run.items[pos]
         platform == run.platforms[t.p]
         results == [t.results EXCEPT ![platform] = Some(m)]
         st == IF t.p < Len(run.platforms)
               THEN LET d == DrawKey(run.keys, run.keyIndex) IN
                    [DriverState EXCEPT
                       !.keyIndex = d.next,
                       !.tasks[pos] = [t EXCEPT !.p = @ + 1, !.results = results,
                                                !.ctr = Append(@, d.ctr),
                                                !.key = Append(@, d.key)]]
               ELSE [DriverState EXCEPT
                       !.files = SetComplete(files, item.id, results),
                       !.tasks[pos] = [t EXCEPT !.pc = "complete", !.results = results]]
     IN Commit(Continue(st, run), run)
  /\ UNCHANGED <<history, apiKeys, selectedPlatforms, isModalOpen, regens, nextId, used>>

\* generateMetadataForPlatform rejects for the task at pos
BatchFail(pos, message) ==
  /\ UNCHANGED call
  /\ pos \in 1..Len(tasks)
  /\ tasks[pos].pc = "call"
  /\ LET c == BatchCatch(files, run.items[pos].id)
         r == [run EXCEPT !.rejected = @ \/ c.thrown]
         st == [DriverState EXCEPT !.files = c.files, !.tasks[pos].pc = "error"]
     IN Commit(Continue(st, r), r)
  /\ UNCHANGED <<history, apiKeys, selectedPlatforms, isModalOpen, regens, nextId, used>>

\* ------------------------------------------------ single-item regeneration
\* handleRegenerate up to its first await.  The key is drawn once
\* (Math.random over the pool); item, apiKeys and selectedPlatforms are the
\* values of the render in which the handler was created.
HandleRegenerate(id, key) ==
  /\ UNCHANGED call
  /\ ~isModalOpen
  /\ id \in Ids(files)
  /\ used < MaxOps
  /\ IF PoolEmpty(apiKeys)
     THEN /\ isModalOpen' = TRUE
          /\ UNCHANGED <<files, regens, used>>
     ELSE /\ key \in Range(apiKeys)
          /\ used' = used + 1
          /\ UNCHANGED isModalOpen
          /\ LET fs1 == SetRegenProcessing(files, id) IN
             IF selectedPlatforms = <<>>
             THEN /\ files' = SetComplete(fs1, id, NoMetadata)
                  /\ UNCHANGED regens
             ELSE /\ files' = fs1
                  /\ regens' = Append(regens, [id |-> id, key |-> key,
                                               platforms |-> selectedPlatforms, p |-> 1,
                                               results |-> NoMetadata])
  /\ UNCHANGED <<history, apiKeys, selectedPlatforms, isProcessing, run, tasks, nextId>>

RemoveAt(s, k) == SubSeq(s, 1, k - 1) \o SubSeq(s, k + 1, Len(s))

\* generateMetadataForPlatform resolves for the k-th regeneration in flight
RegenOk(k, m) ==
  /\ UNCHANGED call
  /\ k \in 1..Len(regens)
  /\ LET t == regens[k]
         results == [t.results EXCEPT ![t.platforms[t.p]] = Some(m)]
     IN IF t.p < Len(t.platforms)
        THEN /\ regens' = [regens EXCEPT ![k] = [t EXCEPT !.p = @ + 1, !.results = results]]
             /\ UNCHANGED files
        ELSE /\ files' = SetComplete(files, t.id, results)
             /\ regens' = RemoveAt(regens, k)
  /\ UNCHANGED <<history, apiKeys, selectedPlatforms, isProcessing, isModalOpen, run,
                 tasks, nextId, used>>

\* generateMetadataForPlatform rejects for the k-th regeneration in flight
RegenFail(k, message) ==
  /\ UNCHANGED call
  /\ k \in 1..Len(regens)
  /\ files' = SetRegenError(files, regens[k].id, message)
  /\ regens' = RemoveAt(regens, k)
  /\ UNCHANGED <<history, apiKeys, selectedPlatforms, isProcessing, isModalOpen, run,
                 tasks, nextId, used>>

\* ------------------------------------------------ credentials and platforms
AddApiKey(key) ==
  /\ UNCHANGED call
  /\ isModalOpen
  /\ used < MaxOps
  /\ apiKeys' = Append(apiKeys, key)
  /\ used' = used + 1
  /\ UNCHANGED <<files, history, selectedPlatforms, isProcessing, isModalOpen, run, tasks,
                 regens, nextId>>

RemoveApiKey(index) ==
  /\ UNCHANGED call
  /\ isModalOpen
  /\ index \in 1..Len(apiKeys)
  /\ apiKeys' = RemoveAt(apiKeys, index)
  /\ UNCHANGED <<files, history, selectedPlatforms, isProcessing, isModalOpen, run, tasks,
                 regens, nextId, used>>

ClearApiKeys ==
  /\ UNCHANGED call
  /\ isModalOpen
  /\ apiKeys # <<>>
  /\ apiKeys' = <<>>
  /\ UNCHANGED <<files, history, selectedPlatforms, isProcessing, isModalOpen, run, tasks,
                 regens, nextId, used>>

\* the "API Keys" button (setIsModalOpen(true)) and the dialog's onClose
SetIsModalOpen(open) ==
  /\ UNCHANGED call
  /\ isModalOpen # open
  /\ open => used < MaxOps
  /\ isModalOpen' = open
  /\ used' = IF open THEN used + 1 ELSE used
  /\ UNCHANGED <<files, history, apiKeys, selectedPlatforms, isProcessing, run, tasks,
                 regens, nextId>>

\* prev.includes(p) ? prev.filter(x => x !== p) : [...prev, p]
Toggle(prev, p) ==
  IF p \in Range(prev) THEN SelectSeq(prev, LAMBDA x : x # p) ELSE Append(prev, p)

TogglePlatform(p) ==
  /\ UNCHANGED call
  /\ ~isModalOpen
  /\ used < MaxOps
  /\ selectedPlatforms' = Toggle(selectedPlatforms, p)
  /\ used' = used + 1
  /\ UNCHANGED <<files, history, apiKeys, isProcessing, isModalOpen, run, tasks, regens,
                 nextId>>

\* ------------------------------------------------------------------ intake
\* name.substring(name.lastIndexOf('.')).toLowerCase(), on the extensions used
GetExt(f) ==
  CASE f.ext = ".EPS" -> ".eps"
    [] f.ext = ".JPG" -> ".jpg"
    [] OTHER -> f.ext

GetBaseName(f) == f.base

IsVector(f) == GetExt(f) \in VectorExts

\* a search that returns the last match
MutFindMatch(others, vec) ==
  LET hits == {j \in 1..Len(others) :
                 /\ GetBaseName(others[j]) = GetBaseName(vec)
                 /\ GetExt(others[j]) \in RasterExts}
  IN IF hits = {} THEN 0 ELSE CHOOSE j \in hits : \A h \in hits : j >= h

\* others.find(o => getBaseName(o.name) === baseName && raster extension):
\* index of the first match in others, 0 when there is none
FindMatch(others, vec) ==
  LET hits == {j \in 1..Len(others) :
                 /\ GetBaseName(others[j]) = GetBaseName(vec)
                 /\ GetExt(others[j]) \in RasterExts}
  IN IF hits = {} THEN 0 ELSE CHOOSE j \in hits : \A h \in hits : j <= h

\* the items handleFileUpload appends for one selection of files
PairFiles(allFiles, firstId) ==
  LET vectors == SelectSeq(allFiles, IsVector)
      NotVector(f) == ~IsVector(f)
      others == SelectSeq(allFiles, NotVector)
      match == [v \in 1..Len(vectors) |-> FindMatch(others, vectors[v])]
      usedOthers == {match[v] : v \in 1..Len(vectors)} \ {0}
      rest == SelectSeq([j \in 1..Len(others) |-> j], LAMBDA j : j \notin usedOthers)
  IN [k \in 1..(Len(vectors) + Len(rest)) |->
        IF k <= Len(vectors)
        THEN NewItem(firstId + k, vectors[k],
                     IF match[k] = 0 THEN None ELSE Some(others[match[k]]))
        ELSE NewItem(firstId + k, others[rest[k - Len(vectors)]], None)]

\* cap is the number of items the specification at hand lets intake create
HandleFileUploadWithin(allFiles, cap) ==
  /\ UNCHANGED call
  /\ ~isModalOpen
  /\ allFiles # <<>>
  /\ LET items == PairFiles(allFiles, nextId) IN
       /\ nextId + Len(items) <= cap
       /\ files' = files \o items
       /\ nextId' = nextId + Len(items)
  /\ UNCHANGED <<history, apiKeys, selectedPlatforms, isProcessing, isModalOpen, run,
                 tasks, regens, used>>

HandleFileUpload(allFiles) == HandleFileUploadWithin(allFiles, MaxItems)

\* {...f, previewFile: file, thumbnail: thumb}
PreviewPatch(f, file) == [f EXCEPT !.previewFile = Some(file)]

HandlePreviewUpload(id, file) ==
  /\ UNCHANGED call
  /\ ~isModalOpen
  /\ id \in Ids(files)
  /\ used < MaxOps
  /\ files' = [i \in 1..Len(files) |->
                 IF files[i].id = id THEN PreviewPatch(files[i], file) ELSE files[i]]
  /\ used' = used + 1
  /\ UNCHANGED <<history, apiKeys, selectedPlatforms, isProcessing, isModalOpen, run,
                 tasks, regens, nextId>>

\* ------------------------------------------------------- metadata editing
\* budget is the number of user operations the specification at hand allows
UpdateMetadataWithin(id, platform, field, value, budget) ==
  /\ UNCHANGED call
  /\ ~isModalOpen
  /\ id \in Ids(files)
  /\ used < budget
  /\ files' = [i \in 1..Len(files) |->
                 IF files[i].id = id /\ files[i].platformMetadata[platform] # None
                 THEN [files[i] EXCEPT !.platformMetadata[platform] =
                         Some([files[i].platformMetadata[platform][1] EXCEPT ![field] = value])]
                 ELSE files[i]]
  /\ used' = used + 1
  /\ UNCHANGED <<history, apiKeys, selectedPlatforms, isProcessing, isModalOpen, run,
                 tasks, regens, nextId>>

UpdateMetadata(id, platform, field, value) ==
  UpdateMetadataWithin(id, platform, field, value, MaxOps)

IsPrefixAt(s, t, k) == k + Len(t) - 1 <= Len(s) /\ SubSeq(s, k, k + Len(t) - 1) = t

\* title.split(findText).join(replaceText), findText not empty
RECURSIVE ReplaceAll(_, _, _)
ReplaceAll(s, find, repl) ==
  IF s = <<>> THEN <<>>
  ELSE IF IsPrefixAt(s, find, 1)
       THEN repl \o ReplaceAll(SubSeq(s, Len(find) + 1, Len(s)), find, repl)
       ELSE <<Head(s)>> \o ReplaceAll(Tail(s), find, repl)

\* k.trim().toLowerCase() on the pieces used
TrimLower(k) ==
  CASE k = " Sky" -> "sky"
    [] k = "Cloud " -> "cloud"
    [] k = " " -> ""
    [] OTHER -> k

\* a spread without the Set
MutDedupe(s) == s

\* [...new Set(s)]: first occurrences, in order
RECURSIVE Dedupe(_)
Dedupe(s) ==
  IF s = <<>> THEN <<>>
  ELSE LET init == Dedupe(SubSeq(s, 1, Len(s) - 1))
           last == s[Len(s)]
       IN IF last \in Range(init) THEN init ELSE Append(init, last)

BulkKeywords(keywords, addKeywords) ==
  IF addKeywords # <<>>
  THEN LET lowered == [j \in 1..Len(addKeywords) |-> TrimLower(addKeywords[j])]
           newKws == SelectSeq(lowered, LAMBDA k : k # "")
       IN Dedupe(keywords \o newKws)
  ELSE keywords

BulkTitle(title, ops) ==
  LET replaced == IF ops.findText # <<>>
                  THEN ReplaceAll(title, ops.findText, ops.replaceText)
                  ELSE title
  IN ops.prefix \o replaced \o ops.suffix

\* the updater of handleBulkApply for one item
BulkItem(file, ops) ==
  [file EXCEPT !.platformMetadata =
     [p \in Platforms |->
        IF p \in ops.platforms /\ file.platformMetadata[p] # None
        THEN LET meta == file.platformMetadata[p][1] IN
             Some([meta EXCEPT !.title = BulkTitle(meta.title, ops),
                               !.keywords = BulkKeywords(meta.keywords, ops.addKeywords)])
        ELSE file.platformMetadata[p]]]

\* a history without the cap
MutPushHistory(prev, snapshot) == Append(prev, snapshot)

\* a history that grows at the wrong end
MutPushFront(prev, snapshot) == <<snapshot>> \o prev

\* setHistory(prev => ...): keep the last HistoryCap snapshots
PushHistory(prev, snapshot) ==
  LET newHistory == Append(prev, snapshot) IN
  IF Len(newHistory) > HistoryCap
  THEN SubSeq(newHistory, Len(newHistory) - HistoryCap + 1, Len(newHistory))
  ELSE newHistory

\* "Bulk Edit" is disabled without files and while a batch run is in progress;
\* budget is the number of user operations the specification at hand allows
HandleBulkApplyWithin(ops, budget) ==
  /\ UNCHANGED call
  /\ ~isModalOpen
  /\ files # <<>>
  /\ ~isProcessing
  /\ used < budget
  /\ history' = PushHistory(history, files)
  /\ files' = [i \in 1..Len(files) |-> BulkItem(files[i], ops)]
  /\ used' = used + 1
  /\ UNCHANGED <<apiKeys, selectedPlatforms, isProcessing, isModalOpen, run, tasks,
                 regens, nextId>>

HandleBulkApply(ops) == HandleBulkApplyWithin(ops, MaxOps)

\* "Undo" is disabled without history and while a batch run is in progress
HandleUndo ==
  /\ UNCHANGED call
  /\ ~isModalOpen
  /\ history # <<>>
  /\ ~isProcessing
  /\ files' = history[Len(history)]
  /\ history' = SubSeq(history, 1, Len(history) - 1)
  /\ UNCHANGED <<apiKeys, selectedPlatforms, isProcessing, isModalOpen, run, tasks,
                 regens, nextId, used>>

\* "Clear All" is disabled without files and while a batch run is in progress
HandleClearAll ==
  /\ UNCHANGED call
  /\ ~isModalOpen
  /\ files # <<>>
  /\ ~isProcessing
  /\ files' = <<>>
  /\ history' = <<>>
  /\ UNCHANGED <<apiKeys, selectedPlatforms, isProcessing, isModalOpen, run, tasks,
                 regens, nextId, used>>

\* ------------------------------------------------------- the whole component
SpecResult == CHOOSE m \in ProviderResults : m.description = "lake"

Uploads == { <<File("photo", ".eps"), File("photo", ".jpg")>> }

BulkOps ==
  { [platforms |-> {"adobe", "freepik"}, findText |-> <<"M">>, replaceText |-> <<"R">>,
     prefix |-> <<"N">>, suffix |-> <<"v">>, addKeywords |-> <<" Sky", "cloud", "sky">>] }

\* The key dialog is a full-screen overlay (ApiModal: fixed inset-0): while it
\* is open the page below takes no click (the guard ~isModalOpen of the page's
\* handlers), and the key list is edited only in it.
Next ==
  \/ \E fs \in Uploads : HandleFileUpload(fs)
  \/ \E id \in 1..MaxItems : HandlePreviewUpload(id, File("draft", ".png"))
  \/ \E p \in Platforms : TogglePlatform(p)
  \/ ProcessBatch
  \/ \E id \in 1..MaxItems : \E key \in KeyNames : HandleRegenerate(id, key)
  \/ \E id \in 1..MaxItems : UpdateMetadata(id, "adobe", "title", <<"E">>)
  \/ \E ops \in BulkOps : HandleBulkApply(ops)
  \/ HandleUndo
  \/ HandleClearAll
  \/ \E open \in BOOLEAN : SetIsModalOpen(open)
  \/ \E key \in KeyNames : AddApiKey(key)
  \/ \E index \in 1..(MaxOps + 1) : RemoveApiKey(index)
  \/ ClearApiKeys
  \/ \E pos \in 1..MaxItems : BatchOk(pos, SpecResult)
  \/ \E pos \in 1..MaxItems : \E msg \in FailureMessages : BatchFail(pos, msg)
  \/ \E k \in 1..MaxOps : RegenOk(k, SpecResult)
  \/ \E k \in 1..MaxOps : \E msg \in FailureMessages : RegenFail(k, msg)

Spec == Init /\ [][Next]_vars

\* ------------------------------------------- batch driver on a long list
\* A collection of BatchItems items left by earlier runs and uploads: the last
\* uploaded ones, at most MaxLive, are not complete; at most one is in error.
DoneMetadata == [p \in Platforms |-> Some(CHOOSE m \in ProviderResults : m.description = "lake")]

BatchCollection(live, err) ==
  [i \in 1..BatchItems |->
     IF i \in err THEN [NewItem(i, File("f", ".png"), None) EXCEPT !.status = "error"]
     ELSE IF i \in live THEN NewItem(i, File("f", ".png"), None)
     ELSE [NewItem(i, File("f", ".png"), None) EXCEPT
             !.status = "complete", !.platformMetadata = DoneMetadata]]

InitBatch ==
  /\ \E n \in 1..MaxLive :
       LET live == (BatchItems - n + 1)..BatchItems IN
       \E err \in SUBSET live :
          /\ Cardinality(err) <= 1
          /\ files = BatchCollection(live, err)
  /\ history = <<>>
  /\ apiKeys = <<"k1", "k2", "k3">>
  /\ selectedPlatforms \in {<<"shutterstock", "adobe">>, AllPlatforms}
  /\ isProcessing = FALSE
  /\ isModalOpen = FALSE
  /\ run = NoRun
  /\ tasks = <<>>
  /\ regens = <<>>
  /\ nextId = BatchItems
  /\ used = MaxOps - 1
  /\ call = NoCall

BatchResult == CHOOSE m \in ProviderResults : m.description = "fox"

NextBatch ==
  \/ ProcessBatch
  \/ \E pos \in 1..BatchItems : BatchOk(pos, BatchResult)
  \/ \E pos \in 1..BatchItems : \E msg \in FailureMessages : BatchFail(pos, msg)

SpecBatch == InitBatch /\ [][NextBatch]_vars

\* ------------------------------------- the component after a deselection
\* The state after the user has unticked Freepik right after load.
InitSelect ==
  /\ files = <<>>
  /\ history = <<>>
  /\ apiKeys \in {<<>>, <<"k1">>}
  /\ selectedPlatforms = Toggle(AllPlatforms, "freepik")
  /\ isProcessing = FALSE
  /\ isModalOpen = FALSE
  /\ run = NoRun
  /\ tasks = <<>>
  /\ regens = <<>>
  /\ nextId = 0
  /\ used = 0
  /\ call = NoCall

SpecSelect == InitSelect /\ [][Next]_vars

\* --------------------------- a batch run with regenerations, with fairness
\* Two uploaded items, one key; every provider call in flight eventually
\* resolves or rejects.
InitLive ==
  /\ files = <<NewItem(1, File("photo", ".png"), None), NewItem(2, File("photo", ".png"), None)>>
  /\ history = <<>>
  /\ apiKeys = <<"k1">>
  /\ selectedPlatforms = Toggle(AllPlatforms, "freepik")
  /\ isProcessing = FALSE
  /\ isModalOpen = FALSE
  /\ run = NoRun
  /\ tasks = <<>>
  /\ regens = <<>>
  /\ nextId = 2
  /\ used = 0
  /\ call = NoCall

BatchResponse(pos) ==
  \/ BatchOk(pos, SpecResult)
  \/ \E msg \in FailureMessages : BatchFail(pos, msg)

RegenResponse(k) ==
  \/ RegenOk(k, SpecResult)
  \/ \E msg \in FailureMessages : RegenFail(k, msg)

NextLive ==
  \/ ProcessBatch
  \/ \E id \in 1..2 : HandleRegenerate(id, "k1")
  \/ \E pos \in 1..2 : BatchOk(pos, SpecResult)
  \/ \E pos \in 1..2 : \E msg \in FailureMessages : BatchFail(pos, msg)
  \/ \E k \in 1..MaxOps : RegenOk(k, SpecResult)
  \/ \E k \in 1..MaxOps : \E msg \in FailureMessages : RegenFail(k, msg)

SpecLive ==
  /\ InitLive
  /\ [][NextLive]_vars
  /\ \A pos \in 1..2 : WF_vars(BatchResponse(pos))
  /\ \A k \in 1..MaxOps : WF_vars(RegenResponse(k))

\* ================================================================== claims
ChunkOf(pos) == (pos - 1) \div concurrency

Current(id) == ItemOf(files, id)

\* A step of processBatch or of one of its tasks.
BatchStep == <<run, tasks>>' # <<run, tasks>>

\* C1: no item of a later chunk is marked processing, and no provider call for
\* it starts, while a task of an earlier chunk has not settled.
C1_ChunkBarrier ==
  \A pos \in 1..Len(tasks) : \A q \in 1..Len(tasks) :
    (ChunkOf(q) < ChunkOf(pos) /\ tasks[q].pc \notin Settled)
      => /\ tasks[pos].pc = "waiting"
         /\ tasks[pos].ctr = <<>>
         /\ Current(run.items[pos].id) = run.items[pos]

C1_Witness ==
  \E pos \in 1..Len(tasks) : \E q \in 1..Len(tasks) : \E e \in 1..Len(tasks) :
    /\ ChunkOf(q) < ChunkOf(pos) /\ ChunkOf(e) < ChunkOf(pos)
    /\ tasks[pos].pc = "call"
    /\ tasks[q].pc = "complete"
    /\ tasks[e].pc = "error"
    /\ tasks[q].ctr[Len(tasks[q].ctr)] > tasks[e].ctr[Len(tasks[e].ctr)]
    /\ q < e

\* C2: the provider calls of one run receive the counter values 0, 1, 2, ...
\* in dispatch order, each once, and the call with counter k uses
\* pool[k mod pool.length].
Dispatched == {d \in (1..Len(tasks)) \X (1..Cardinality(Platforms)) : d[2] <= Len(tasks[d[1]].ctr)}

CtrOf(d) == tasks[d[1]].ctr[d[2]]

C2_Rotation ==
  /\ \A d \in Dispatched :
       tasks[d[1]].key[d[2]] = run.keys[(CtrOf(d) % Len(run.keys)) + 1]
  /\ \A d \in Dispatched : \A e \in Dispatched : d # e => CtrOf(d) # CtrOf(e)
  /\ {CtrOf(d) : d \in Dispatched} = 0..(Cardinality(Dispatched) - 1)
  /\ run.keyIndex = Cardinality(Dispatched)
  \* dispatch order: platforms of one item in listed order, first calls of a
  \* chunk in item order, a later chunk after every first call of an earlier one
  /\ \A d \in Dispatched : \A e \in Dispatched :
       \/ d[1] = e[1] /\ d[2] < e[2]
       \/ d[2] = 1 /\ e[2] = 1 /\ d[1] < e[1]
       \/ d[2] = 1 /\ ChunkOf(d[1]) < ChunkOf(e[1])
       => CtrOf(d) < CtrOf(e)

C2_Witness ==
  /\ Len(run.keys) = 3
  /\ Cardinality(Dispatched) >= 9
  /\ \E d \in Dispatched : \E e \in Dispatched : d[1] < e[1] /\ CtrOf(d) > CtrOf(e)
  /\ \E d \in Dispatched : CtrOf(d) = 8 /\ tasks[d[1]].key[d[2]] = "k3"

\* C3: a batch run starts no provider call for an item that is complete when
\* the run starts and changes neither its status nor its metadata.
C3_CompleteSkipped ==
  [][BatchStep =>
      \A pos \in 1..Len(run'.items) :
        run'.items[pos].status = "complete" =>
          /\ tasks'[pos].pc = "skipped"
          /\ tasks'[pos].ctr = <<>>
          /\ LET id == run'.items[pos].id IN
             (id \in Ids(files) /\ id \in Ids(files')) =>
               /\ ItemOf(files', id).status = Current(id).status
               /\ ItemOf(files', id).platformMetadata = Current(id).platformMetadata]_vars

C3_Witness ==
  \E pos \in 1..Len(tasks) :
    /\ tasks[pos].pc = "skipped"
    /\ run.items[pos].status = "complete"
    /\ Current(run.items[pos].id) = run.items[pos]
    /\ ~isProcessing

\* C4: a failing item does not make processBatch throw, and the run still
\* takes every other item that was not complete to complete or error.
C4_FailureIsolated ==
  (\E q \in 1..Len(tasks) : tasks[q].pc = "error") =>
    /\ ~run.rejected
    /\ ~isProcessing =>
         \A pos \in 1..Len(tasks) :
           /\ tasks[pos].pc \in Settled
           /\ tasks[pos].pc = "skipped" <=> run.items[pos].status = "complete"
           /\ tasks[pos].pc # "skipped" => Current(run.items[pos].id).status = tasks[pos].pc

C4_Witness ==
  /\ ~isProcessing
  /\ \E e \in 1..Len(tasks) : \E q \in 1..Len(tasks) : \E pos \in 1..Len(tasks) :
       /\ tasks[e].pc = "error"
       /\ tasks[q].pc = "complete" /\ ChunkOf(q) = ChunkOf(e)
       /\ tasks[pos].pc = "complete" /\ ChunkOf(pos) > ChunkOf(e)

\* The step in which processBatch calls setIsProcessing(false).
FinishStep == isProcessing /\ ~isProcessing'

Live(pos) == run.items[pos].status # "complete"

RegenInFlight(rs, id) == \E k \in 1..Len(rs) : rs[k].id = id

\* C5 as stated: every run finishes, and at that moment every item of the run
\* that was not complete at its start has status complete or error.
C5_Original ==
  /\ isProcessing ~> ~isProcessing
  /\ [][FinishStep =>
          \A pos \in 1..Len(run.items) :
            Live(pos) => ItemOf(files', run.items[pos].id).status \in {"complete", "error"}]_vars

\* C5 (amended): every run finishes, and at that moment the task of every item
\* that was not complete at the start has ended in complete or error; the item
\* has status complete or error, or is processing under a regeneration that is
\* still in flight.
C5_RunFinishes ==
  /\ isProcessing ~> ~isProcessing
  /\ [][FinishStep =>
          \A pos \in 1..Len(run.items) :
            Live(pos) =>
              LET item == ItemOf(files', run.items[pos].id) IN
              /\ tasks'[pos].pc \in {"complete", "error"}
              /\ \/ item.status \in {"complete", "error"}
                 \/ item.status = "processing" /\ RegenInFlight(regens', item.id)]_vars

C5_Witness ==
  /\ ~isProcessing
  /\ Len(tasks) = 2
  /\ \E pos \in 1..2 : \E q \in 1..2 :
       /\ tasks[pos].pc = "error" /\ tasks[q].pc = "complete"
       /\ Current(run.items[q].id).status = "complete"
       /\ Current(run.items[pos].id).status = "processing"
       /\ RegenInFlight(regens, run.items[pos].id)

\* C6 as stated: a complete item has metadata for every selected platform.
C6_Original ==
  \A i \in 1..Len(files) :
    files[i].status = "complete" =>
      \A p \in Range(selectedPlatforms) : files[i].platformMetadata[p] # None

\* C6 (amended): when a batch task or a regeneration makes an item complete,
\* the item has metadata for every platform that was selected when that task
\* started.
C6_CompleteHasGenerated ==
  [][/\ \A pos \in 1..Len(tasks) :
          (Len(tasks') = Len(tasks) /\ tasks[pos].pc = "call" /\ tasks'[pos].pc = "complete")
            => LET id == run.items[pos].id IN
               id \in Ids(files') =>
                 /\ ItemOf(files', id).status = "complete"
                 /\ \A p \in Range(run.platforms) :
                      ItemOf(files', id).platformMetadata[p] # None
     /\ \A k \in 1..Len(regens) :
          LET id == regens[k].id IN
          (regens' = RemoveAt(regens, k) /\ id \in Ids(files')
             /\ ItemOf(files', id).status = "complete")
            => \A p \in Range(regens[k].platforms) :
                 ItemOf(files', id).platformMetadata[p] # None]_vars

C6_Witness ==
  \E pos \in 1..Len(tasks) :
    /\ tasks[pos].pc = "complete"
    /\ run.items[pos].id \in Ids(files)
    /\ Current(run.items[pos].id).status = "complete"
    /\ \A p \in Range(run.platforms) : Current(run.items[pos].id).platformMetadata[p] # None
    /\ \E p \in Range(selectedPlatforms) : Current(run.items[pos].id).platformMetadata[p] = None

ErrorTexts == {Some(m) : m \in (FailureMessages \ {""}) \cup {"Failed to regenerate"}}

C8_ErrorMessageSet ==
  [][\A i \in 1..Len(files) :
       (/\ Len(files') = Len(files)
        /\ files[i].status = "processing"
        /\ files'[i].status = "error"
        /\ tasks' # tasks \/ regens' # regens)
         => files'[i].error \in ErrorTexts]_vars

\* C9: an item carries an error message only if its status is error.
C9_ErrorOnlyInError ==
  \A i \in 1..Len(files) : files[i].error # None => files[i].status = "error"

ErrorToProcessing(id) ==
  /\ id \in Ids(files) /\ id \in Ids(files')
  /\ Current(id).status = "error"
  /\ ItemOf(files', id).status = "processing"

\* handleRegenerate has been called for id and awaits its first provider call.
RegenerateStep(id) ==
  /\ Len(regens') = Len(regens) + 1
  /\ regens'[Len(regens')].id = id
  /\ regens'[Len(regens')].p = 1

\* C10 as stated: only handleRegenerate takes an item from error to
\* processing, and it resets the error message.
C10_Original ==
  [][\A id \in 1..MaxItems :
       ErrorToProcessing(id) => RegenerateStep(id) /\ ItemOf(files', id).error = None]_vars

\* C10 (amended): an item goes from error to processing through
\* handleRegenerate, which resets the error message, through the batch driver
\* starting its task, which keeps the message, or through an undo that
\* restores a snapshot in which it was processing.
C10_ErrorToProcessing ==
  [][\A id \in 1..MaxItems :
       ErrorToProcessing(id) =>
         \/ RegenerateStep(id) /\ ItemOf(files', id).error = None
         \/ /\ BatchStep
            /\ \E pos \in 1..Len(tasks') :
                 /\ run'.items[pos].id = id
                 /\ tasks'[pos].pc # "waiting"
                 /\ ~isProcessing \/ tasks[pos].pc = "waiting"
            /\ ItemOf(files', id).error = Current(id).error
         \/ /\ history # <<>>
            /\ files' = history[Len(history)]
            /\ history' = SubSeq(history, 1, Len(history) - 1)]_vars

C10_Witness ==
  \E pos \in 1..Len(tasks) :
    /\ run.items[pos].status = "error"
    /\ run.items[pos].error # None
    /\ tasks[pos].pc = "call"
    /\ run.items[pos].id \in Ids(files)
    /\ Current(run.items[pos].id).status = "processing"

\* The item with this id has status complete and the step gives it another one.
LeavesComplete(id) ==
  /\ id \in Ids(files) /\ id \in Ids(files')
  /\ Current(id).status = "complete"
  /\ ItemOf(files', id).status # "complete"

\* A regeneration of the item that is in flight ends in this step.
RegenerateEnds(id) ==
  \E k \in 1..Len(regens) : regens[k].id = id /\ regens' = RemoveAt(regens, k)

\* C11 as stated: a complete item changes status only in a step of a
\* regeneration of that item.
C11_Original ==
  [][\A id \in 1..MaxItems :
       LeavesComplete(id) => RegenerateStep(id) \/ RegenerateEnds(id)]_vars

\* C11 (amended): a complete item changes status when handleRegenerate is
\* called for it, when a regeneration of it that is in flight fails, when an
\* undo restores a snapshot, or when a batch task acts on it whose run found
\* it not complete at its start.
C11_CompleteLeft ==
  [][\A id \in 1..MaxItems :
       LeavesComplete(id) =>
         \/ RegenerateStep(id) /\ ItemOf(files', id).status = "processing"
         \/ RegenerateEnds(id) /\ ItemOf(files', id).status = "error"
         \/ /\ BatchStep
            /\ \E pos \in 1..Len(tasks') :
                 /\ run'.items[pos].id = id
                 /\ run'.items[pos].status # "complete"
                 /\ tasks'[pos].pc \in {"call", "complete", "error"}
                 /\ ~isProcessing \/ tasks'[pos] # tasks[pos]
         \/ /\ history # <<>>
            /\ files' = history[Len(history)]
            /\ history' = SubSeq(history, 1, Len(history) - 1)]_vars

C11_Witness ==
  /\ ~isProcessing
  /\ \E pos \in 1..Len(tasks) :
       /\ tasks[pos].pc = "complete"
       /\ run.items[pos].id \in Ids(files)
       /\ Current(run.items[pos].id).status = "pending"

\* C12: with an empty credential pool, processBatch and handleRegenerate open
\* the key dialog and do nothing else: the collection, the run, its tasks, the
\* regenerations in flight and the processing flag stay as they are; and no
\* step at all starts a run or a regeneration while the pool is empty.
C12_EmptyPoolRefused ==
  [][apiKeys = <<>> =>
       /\ (ProcessBatch \/ \E id \in 1..MaxItems : \E key \in KeyNames : HandleRegenerate(id, key))
            => /\ isModalOpen'
               /\ UNCHANGED <<files, run, tasks, regens, isProcessing, history>>
       /\ ~isProcessing => ~isProcessing'
       /\ run'.items = run.items
       /\ Len(regens') <= Len(regens)]_vars

\* The key dialog is open over a non-empty collection without the "API Keys"
\* button having been used: a start was refused.
C12_Witness ==
  /\ isModalOpen
  /\ apiKeys = <<>>
  /\ files # <<>>
  /\ used = 0
  /\ ~isProcessing /\ tasks = <<>> /\ regens = <<>>
  /\ \A i \in 1..Len(files) : files[i].status = "pending"

\* The application after the user has deselected every platform.
InitNone ==
  /\ files = <<>>
  /\ history = <<>>
  /\ apiKeys \in {<<>>, <<"k1">>}
  /\ selectedPlatforms = Toggle(Toggle(Toggle(AllPlatforms, "adobe"), "shutterstock"), "freepik")
  /\ isProcessing = FALSE
  /\ isModalOpen = FALSE
  /\ run = NoRun
  /\ tasks = <<>>
  /\ regens = <<>>
  /\ nextId = 0
  /\ used = 0
  /\ call = NoCall

SpecNone == InitNone /\ [][Next]_vars

\* C13: with no platform selected and a credential in the pool, a call of
\* processBatch or handleRegenerate dispatches nothing and changes the status
\* of no item.
C13_NoPlatformRefused ==
  [][(/\ selectedPlatforms = <<>>
      /\ apiKeys # <<>>
      /\ ProcessBatch \/ \E id \in 1..MaxItems : \E key \in KeyNames : HandleRegenerate(id, key))
       => /\ UNCHANGED <<tasks, regens, isProcessing>>
          /\ Len(files') = Len(files)
          /\ \A i \in 1..Len(files) : files'[i].status = files[i].status]_vars

\* ---------------------------------------------------------- retry wrappers
\* generateContentWithRetry (Gemini), callMistralApi and callGroqApi: one call
\* of the wrapper, from its first attempt to its return or throw.
retries == 5

Providers == {"gemini", "mistral", "groq"}

\* Text is a sequence of pieces; a digit is a piece of its own, so that
\* String.includes on a number can be decided.
DigitChars == <<"0", "1", "2", "3", "4", "5", "6", "7", "8", "9">>

\* the decimal digits of an HTTP status
Digits(n) ==
  <<DigitChars[(n \div 100) + 1], DigitChars[((n \div 10) % 10) + 1], DigitChars[(n % 10) + 1]>>

\* s.includes(t)
Includes(s, t) == \E k \in 1..Len(s) : IsPrefixAt(s, t, k)

\* What can go wrong in one attempt: the HTTP status of the response and the
\* text the provider (or the JSON parser) supplies.  kind names the failure
\* for the reader; the wrappers never see it.
Failures ==
  { [kind |-> "rate limit", status |-> 429, text |-> <<"Quota exceeded">>],
    [kind |-> "overload", status |-> 503, text |-> <<"The model is ", "overloaded">>],
    [kind |-> "overload", status |-> 500, text |-> <<"Internal error">>],
    [kind |-> "auth", status |-> 401, text |-> <<"API key not valid">>],
    [kind |-> "malformed", status |-> 400, text |-> <<"Invalid request">>],
    [kind |-> "malformed", status |-> 400,
     text |-> <<"Requested ", "3", "5", "0", "0", "3", " tokens">>],
    [kind |-> "parse", status |-> 200, text |-> <<"Unexpected end of JSON input">>],
    [kind |-> "parse", status |-> 200,
     text |-> <<"Unexpected token in JSON at position ", "4", "2", "9", "0">>] }

\* The error value the catch block receives.  The SDK's error carries status
\* and message; the fetch wrappers throw new Error(`... API Error ${status}:
\* ${message}`) for a response that is not ok, and response.json() throws the
\* parser's error.
Raise(provider, f) ==
  IF provider = "gemini"
  THEN [status |-> Some(f.status), message |-> Some(f.text)]
  ELSE IF f.kind = "parse"
  THEN [status |-> None, message |-> Some(f.text)]
  ELSE [status |-> None,
        message |-> Some(<<IF provider = "mistral" THEN "Mistral API Error "
                                                   ELSE "Groq API Error ">>
                         \o Digits(f.status) \o <<": ">> \o f.text)]

\* const isRetryable = ...
IsRetryable(provider, e) ==
  IF provider = "gemini"
  THEN \/ e.status = Some(429)
       \/ e.status = Some(503)
       \/ /\ e.message # None
          /\ \/ Includes(e.message[1], Digits(429))
             \/ Includes(e.message[1], Digits(503))
             \/ Includes(e.message[1], <<"Quota exceeded">>)
             \/ Includes(e.message[1], <<"overloaded">>)
  ELSE \/ Includes(e.message[1], Digits(429))
       \/ Includes(e.message[1], Digits(500))
       \/ Includes(e.message[1], Digits(503))

\* a wrapper that retries without counting
MutCanRetry(i) == TRUE

\* i < retries - 1
CanRetry(i) == i < retries - 1

RECURSIVE Pow2(_)
Pow2(i) == IF i = 0 THEN 1 ELSE 2 * Pow2(i - 1)

\* 2000 * Math.pow(2, i), for Groq 3000 * Math.pow(2, i)
BaseDelay(provider, i) == (IF provider = "groq" THEN 3000 ELSE 2000) * Pow2(i)

\* Math.random() * 1000, at its two ends
Jitters == {0, 999}

NewCall(provider) ==
  [pc |-> "attempt", provider |-> provider, i |-> 0, attempts |-> 0, sleeps |-> 0,
   delay |-> 0, last |-> None, result |-> None, error |-> None]

\* the awaited request resolves: return await ...
AttemptOk(m) ==
  /\ call.pc = "attempt"
  /\ call' = [call EXCEPT !.pc = "returned", !.attempts = @ + 1, !.result = Some(m)]
  /\ UNCHANGED <<files, history, apiKeys, selectedPlatforms, isProcessing, isModalOpen,
                 run, tasks, regens, nextId, used>>

\* the awaited request fails: the catch block
AttemptFail(f, jitter) ==
  /\ call.pc = "attempt"
  /\ call.provider = "gemini" => f.kind # "parse"
  /\ LET e == Raise(call.provider, f) IN
     call' = IF IsRetryable(call.provider, e) /\ CanRetry(call.i)
             THEN [call EXCEPT !.pc = "backoff", !.attempts = @ + 1, !.last = Some(f),
                               !.delay = BaseDelay(call.provider, call.i) + jitter]
             ELSE [call EXCEPT !.pc = "thrown", !.attempts = @ + 1, !.last = Some(f),
                               !.error = Some(e)]
  /\ UNCHANGED <<files, history, apiKeys, selectedPlatforms, isProcessing, isModalOpen,
                 run, tasks, regens, nextId, used>>

\* the timer of the backoff fires: continue; the function returns undefined
\* when the loop ends
BackoffElapsed ==
  /\ call.pc = "backoff"
  /\ call' = IF call.i + 1 < retries
             THEN [call EXCEPT !.pc = "attempt", !.i = @ + 1, !.sleeps = @ + 1]
             ELSE [call EXCEPT !.pc = "returned", !.i = @ + 1, !.sleeps = @ + 1]
  /\ UNCHANGED <<files, history, apiKeys, selectedPlatforms, isProcessing, isModalOpen,
                 run, tasks, regens, nextId, used>>

InitRetry ==
  /\ files = <<>>
  /\ history = <<>>
  /\ apiKeys = <<"k1">>
  /\ selectedPlatforms = AllPlatforms
  /\ isProcessing = FALSE
  /\ isModalOpen = FALSE
  /\ run = NoRun
  /\ tasks = <<>>
  /\ regens = <<>>
  /\ nextId = 0
  /\ used = 0
  /\ call \in {NewCall(provider) : provider \in Providers}

NextRetry ==
  \/ \E m \in ProviderResults : AttemptOk(m)
  \/ \E f \in Failures : \E jitter \in Jitters : AttemptFail(f, jitter)
  \/ BackoffElapsed

SpecRetry == InitRetry /\ [][NextRetry]_vars

\* An attempt of the wrapper fails in this step.
AttemptFails ==
  /\ call.pc = "attempt"
  /\ call'.attempts = call.attempts + 1
  /\ call'.pc # "returned"

\* C14: a call of a retry wrapper makes at most 5 attempts; an attempt that
\* succeeds makes the wrapper return its result at once; after the 5th failed
\* attempt the wrapper throws, and what it throws is the error of its last
\* attempt; nothing happens after the return or the throw.
C14_RetryCeiling ==
  /\ [](/\ call.attempts <= retries
        /\ call.sleeps < retries
        /\ call.pc = "returned" => call.result # None
        /\ call.pc = "thrown" =>
             call.last # None /\ call.error = Some(Raise(call.provider, call.last[1]))
        /\ call.attempts = retries => call.pc \in {"returned", "thrown"})
  /\ [][/\ call'.pc = "returned" =>
             /\ call.pc = "attempt"
             /\ call'.attempts = call.attempts + 1
             /\ call'.result \in {Some(m) : m \in ProviderResults}
        /\ call.pc \in {"returned", "thrown"} => call' = call]_vars

C14_Witness ==
  /\ call.pc = "thrown"
  /\ call.attempts = retries
  /\ call.sleeps = retries - 1
  /\ call.last # None /\ call.last[1].kind = "rate limit"
  /\ call.error = Some(Raise(call.provider, call.last[1]))

\* C15: an attempt that fails with a failure that is not transient (not a rate
\* limit, not an overload) makes the wrapper throw at once: no backoff, no
\* further attempt.
C15_NonTransientNotRetried ==
  [][(AttemptFails /\ call'.last[1].kind \notin {"rate limit", "overload"})
       => /\ call'.pc = "thrown"
          /\ call'.sleeps = call.sleeps
          /\ call'.delay = call.delay]_vars

\* --------------------------------------------------- a full first chunk
\* A collection larger than one chunk: every item pending and one platform
\* selected, or the last MaxLive items pending and two platforms selected.
InitWide ==
  /\ \/ /\ files = BatchCollection(1..BatchItems, {})
        /\ selectedPlatforms = <<"adobe">>
     \/ /\ files = BatchCollection((BatchItems - MaxLive + 1)..BatchItems, {})
        /\ selectedPlatforms = <<"adobe", "shutterstock">>
  /\ history = <<>>
  /\ apiKeys = <<"k1", "k2">>
  /\ isProcessing = FALSE
  /\ isModalOpen = FALSE
  /\ run = NoRun
  /\ tasks = <<>>
  /\ regens = <<>>
  /\ nextId = BatchItems
  /\ used = MaxOps - 1
  /\ call = NoCall

SpecWide == InitWide /\ [][NextBatch]_vars

\* Items whose batch task is waiting for a provider call to return.
InFlight == {pos \in 1..Len(tasks) : tasks[pos].pc = "call"}

\* C16: at most 6 provider calls of the batch driver are in flight, all for
\* items of the chunk the loop is at, and one item's calls are sequential: the
\* call in flight is the only one issued whose result is not in yet, and the
\* platforms before it have all returned.
C16_InFlightBounded ==
  /\ Cardinality(InFlight) <= concurrency
  /\ \A pos \in InFlight :
       /\ ChunkOf(pos) = run.i \div concurrency
       /\ tasks[pos].p \in 1..Len(run.platforms)
       /\ Len(tasks[pos].ctr) = tasks[pos].p
       /\ \A q \in 1..Len(run.platforms) :
            tasks[pos].results[run.platforms[q]] # None <=> q < tasks[pos].p

C16_Witness ==
  /\ Cardinality(InFlight) = concurrency
  /\ Len(tasks) > concurrency
  /\ tasks[concurrency + 1].pc = "waiting"
  /\ Current(run.items[concurrency + 1].id).status = "pending"

\* ------------------------------------------------- repeated bulk edits
\* A complete item with metadata for every platform and a pending one; the
\* user applies the same bulk edit again and again and undoes.
HistoryStart ==
  <<[NewItem(1, File("f", ".png"), None) EXCEPT
       !.status = "complete", !.platformMetadata = DoneMetadata],
    NewItem(2, File("g", ".png"), None)>>

InitHistory ==
  /\ files = HistoryStart
  /\ history = <<>>
  /\ apiKeys = <<"k1">>
  /\ selectedPlatforms = AllPlatforms
  /\ isProcessing = FALSE
  /\ isModalOpen = FALSE
  /\ run = NoRun
  /\ tasks = <<>>
  /\ regens = <<>>
  /\ nextId = 2
  /\ used = 0
  /\ call = NoCall

NextHistory ==
  \/ \E ops \in BulkOps : HandleBulkApplyWithin(ops, HistoryEdits)
  \/ HandleUndo

SpecHistory == InitHistory /\ [][NextHistory]_vars

\* The collection of InitHistory after n bulk edits.
RECURSIVE Edited(_)
Edited(n) ==
  IF n = 0 THEN HistoryStart
  ELSE LET prev == Edited(n - 1) IN
       [i \in 1..Len(prev) |-> BulkItem(prev[i], CHOOSE ops \in BulkOps : TRUE)]

\* The number of edits the collection carries.
Depth(fs) == CHOOSE n \in 0..HistoryEdits : fs = Edited(n)

\* C17: the history never holds more than 10 snapshots; it holds the
\* collections before the most recent edits that were not undone, oldest
\* first; and after n edits in a row it holds min(n, 10) of them, so that
\* after 12 edits its oldest snapshot is the collection before the 3rd edit.
C17_HistoryCapped ==
  /\ Len(history) <= HistoryCap
  /\ \E n \in 0..HistoryEdits : files = Edited(n)
  /\ Len(history) <= Depth(files)
  /\ \A j \in 1..Len(history) : history[j] = Edited(Depth(files) - Len(history) + j - 1)
  /\ Depth(files) = used => Len(history) = Min(used, HistoryCap)

\* After 12 edits in a row and 10 undos the history is empty and the
\* collection is the one before the 3rd edit.
C17_Witness ==
  /\ used = HistoryCap + 2
  /\ history = <<>>
  /\ files = Edited(2)
  /\ files # Edited(0)

\* A step that pushes a snapshot, and a step that pops one.
BulkEditStep == history' # history /\ Len(history') >= Len(history)

UndoStep == Len(history') < Len(history) /\ files' # <<>>

Front(h) == SubSeq(h, 1, Len(h) - 1)

\* C18: a bulk edit leaves on top of the history the collection as it was
\* before the edit and below it the snapshots that were there (without the
\* oldest one when the history was full); undo makes the top snapshot the
\* collection and removes just that snapshot.  So an undo right after an edit
\* gives back the collection of before, item by item and field by field.
C18_EditUndoRoundTrip ==
  [][/\ BulkEditStep =>
          /\ history'[Len(history')] = files
          /\ Front(history') = IF Len(history) < HistoryCap THEN history ELSE Tail(history)
     /\ UndoStep =>
          /\ files' = history[Len(history)]
          /\ history' = Front(history)]_vars

\* After one edit and its undo: the title is the original one again.
C18_Witness ==
  /\ used = 1
  /\ history = <<>>
  /\ files = HistoryStart
  /\ files[1].platformMetadata["adobe"][1].title = <<"M", "L">>
  /\ Edited(1)[1].platformMetadata["adobe"][1].title = <<"N", "R", "L", "v">>

\* ------------------------------------------------- bulk keyword addition
\* Keyword lists the user may type into the keywords box of a result card: the
\* box stores e.target.value.split(',') trimmed, without lowercasing and
\* without removing repeats.
TypedKeywords == { <<"sky", "sky", "blue">>, <<"Sky", "blue">>, <<"cloud">> }

\* Bulk edits that leave the title alone and differ in the keywords supplied:
\* the example of the specification with a padded, capitalised entry, a text
\* of blanks only, and no text at all.
KeywordOps ==
  { [platforms |-> {"adobe", "freepik"}, findText |-> <<>>, replaceText |-> <<>>,
     prefix |-> <<>>, suffix |-> <<>>, addKeywords |-> a] :
       a \in { <<" Sky", "cloud", "sky">>, <<"Cloud ", " ">>, <<" ">>, <<>> } }

InitKeywords ==
  /\ files = HistoryStart
  /\ history = <<>>
  /\ apiKeys = <<"k1">>
  /\ selectedPlatforms = AllPlatforms
  /\ isProcessing = FALSE
  /\ isModalOpen = FALSE
  /\ run = NoRun
  /\ tasks = <<>>
  /\ regens = <<>>
  /\ nextId = 2
  /\ used = 0
  /\ call = NoCall

NextKeywords ==
  \/ \E p \in {"adobe", "shutterstock"} : \E kws \in TypedKeywords :
       UpdateMetadataWithin(1, p, "keywords", kws, KeywordEdits)
  \/ \E ops \in KeywordOps : HandleBulkApplyWithin(ops, KeywordEdits)
  \/ HandleUndo

SpecKeywords == InitKeywords /\ [][NextKeywords]_vars

\* the supplied keywords as the edit uses them: trimmed, lowercased, blanks dropped
Supplied(ops) ==
  SelectSeq([j \in 1..Len(ops.addKeywords) |-> TrimLower(ops.addKeywords[j])],
            LAMBDA k : k # "")

NoDuplicates(s) == \A i, j \in 1..Len(s) : s[i] = s[j] => i = j

\* position of the first occurrence of k in s
FirstIndex(s, k) == CHOOSE i \in 1..Len(s) : s[i] = k /\ \A j \in 1..(i - 1) : s[j] # k

\* r holds every member of s once, in the order of first occurrence in s
DistinctInOrder(r, s) ==
  /\ NoDuplicates(r)
  /\ Range(r) = Range(s)
  /\ \A i, j \in 1..Len(r) : i < j => FirstIndex(s, r[i]) < FirstIndex(s, r[j])

\* the entries a bulk edit with ops touches: <<item index, platform>>
Affected(ops) ==
  { <<i, p>> \in (1..Len(files)) \X Platforms :
      p \in ops.platforms /\ files[i].platformMetadata[p] # None }

KeywordsAt(fs, i, p) == fs[i].platformMetadata[p][1].keywords

\* C19 as stated: after a bulk edit that supplies keywords, every affected
\* entry holds its existing keywords unchanged and in order, followed by the
\* supplied ones (trimmed, lowercased) that were not present, each once in
\* first-seen order.
C19_Original ==
  [][\A ops \in KeywordOps :
       (HandleBulkApplyWithin(ops, KeywordEdits) /\ ops.addKeywords # <<>>) =>
         \A e \in Affected(ops) :
           LET old == KeywordsAt(files, e[1], e[2])
               new == KeywordsAt(files', e[1], e[2])
               fresh == SelectSeq(Supplied(ops), LAMBDA k : k \notin Range(old))
           IN /\ Len(new) >= Len(old)
              /\ SubSeq(new, 1, Len(old)) = old
              /\ DistinctInOrder(SubSeq(new, Len(old) + 1, Len(new)), fresh)]_vars

\* C19: after a bulk edit that supplies keywords, every affected entry holds
\* the distinct existing keywords in the order of their first occurrence,
\* followed by the supplied ones (trimmed, lowercased) that were not present,
\* each once in first-seen order; the result has no duplicates, applying the
\* same edit to the result changes no keyword, and entries of other platforms
\* keep their keywords. A repeat among the existing keywords is removed.
C19_KeywordUnion ==
  [][\A ops \in KeywordOps :
       (HandleBulkApplyWithin(ops, KeywordEdits) /\ ops.addKeywords # <<>>) =>
         /\ \A e \in Affected(ops) :
              LET old == KeywordsAt(files, e[1], e[2])
                  new == KeywordsAt(files', e[1], e[2])
              IN /\ DistinctInOrder(new, old \o Supplied(ops))
                 /\ NoDuplicates(new)
                 /\ BulkItem(files'[e[1]], ops).platformMetadata[e[2]][1].keywords = new
         /\ \A i \in 1..Len(files) : \A p \in Platforms \ ops.platforms :
              files'[i].platformMetadata[p] = files[i].platformMetadata[p]]_vars

\* a typed list with a repeat, [sky, sky, blue], was bulk edited with
\* " Sky", cloud, sky twice: [sky, blue, cloud] after the first edit and after
\* the second, the keywords of the untargeted platform as the provider gave them
C19_Witness ==
  /\ Len(history) = 2
  /\ KeywordsAt(history[1], 1, "adobe") = <<"sky", "sky", "blue">>
  /\ KeywordsAt(history[2], 1, "adobe") = <<"sky", "blue", "cloud">>
  /\ KeywordsAt(files, 1, "adobe") = <<"sky", "blue", "cloud">>
  /\ KeywordsAt(files, 1, "freepik") = <<"sky", "blue", "cloud">>
  /\ KeywordsAt(files, 1, "shutterstock") = <<"sky", "blue">>

\* --------------------------------------------- bulk edit and item status
\* The page as loaded, or with one item short of a bulk edit's two ways to meet
\* an item that is not complete and holds metadata: either the item was
\* generated (complete, provider metadata for every platform), or its batch
\* task failed and the user has clicked "Retry" on the card (processing,
\* nothing generated yet, one regeneration in flight).
RetryStart ==
  <<[NewItem(1, File("f", ".png"), None) EXCEPT !.status = "processing"]>>

RetryInFlight ==
  <<[id |-> 1, key |-> "k1", platforms |-> AllPlatforms, p |-> 1, results |-> NoMetadata]>>

InitEdit ==
  /\ \/ files = <<>> /\ regens = <<>> /\ nextId = 0
     \/ files = <<HistoryStart[1]>> /\ regens = <<>> /\ nextId = 1
     \/ files = RetryStart /\ regens = RetryInFlight /\ nextId = 1
  /\ history = <<>>
  /\ apiKeys = <<"k1">>
  /\ selectedPlatforms = AllPlatforms
  /\ isProcessing = FALSE
  /\ isModalOpen = FALSE
  /\ run = NoRun
  /\ tasks = <<>>
  /\ used = 0
  /\ call = NoCall

SpecEdit == InitEdit /\ [][Next]_vars

\* C20: a bulk edit changes the platformMetadata only of items whose status is
\* complete; an item that is pending, processing or in error keeps its
\* platformMetadata, also when it holds Metadata for a targeted platform.
C20_OnlyCompleteEdited ==
  [][BulkEditStep =>
       \A i \in 1..Len(files) :
         files[i].status # "complete" =>
           files'[i].platformMetadata = files[i].platformMetadata]_vars

\* an item in error holds a title the bulk edit has rewritten
C20_ErrorItemEdited ==
  /\ history # <<>>
  /\ \E i \in 1..Len(files) :
       /\ files[i].status = "error"
       /\ history[Len(history)][i].status = "error"
       /\ files[i].platformMetadata["adobe"] # None
       /\ files[i].platformMetadata["adobe"][1].title = <<"N", "R", "L", "v">>

\* ------------------------------------------------------ intake and removal
\* Files a user may select: two vectors and two rasters of one base name (one
\* with an upper-case extension) and a video.
IntakeFiles ==
  { File("photo", ".eps"), File("photo", ".ai"), File("photo", ".JPG"),
    File("photo", ".png"), File("clip", ".mp4") }

\* e.target.files: up to MaxUpload distinct files in any order
Selections ==
  UNION { { fs \in [1..n -> IntakeFiles] : \A i, j \in 1..n : fs[i] = fs[j] => i = j } :
            n \in 1..MaxUpload }

InitIntake ==
  /\ files = <<>>
  /\ history = <<>>
  /\ apiKeys = <<"k1">>
  /\ selectedPlatforms = AllPlatforms
  /\ isProcessing = FALSE
  /\ isModalOpen = FALSE
  /\ run = NoRun
  /\ tasks = <<>>
  /\ regens = <<>>
  /\ nextId = 0
  /\ used = 0
  /\ call = NoCall

NextIntake ==
  \/ \E fs \in Selections : HandleFileUploadWithin(fs, IntakeItems)
  \/ HandleClearAll

SpecIntake == InitIntake /\ [][NextIntake]_vars

\* Uploads of one file or of a vector with its preview, bulk edits, undo and
\* clear all on the page as loaded.
SmallSelections == { <<f>> : f \in IntakeFiles } \cup Uploads

NextRemoval ==
  \/ \E fs \in SmallSelections : HandleFileUploadWithin(fs, RemovalItems)
  \/ \E ops \in BulkOps : HandleBulkApplyWithin(ops, RemovalEdits)
  \/ HandleUndo
  \/ HandleClearAll

SpecRemoval == InitIntake /\ [][NextRemoval]_vars

\* C21: an item of the collection is removed from it only by clear all.
C21_RemovedOnlyByClearAll ==
  [][(\E id \in Ids(files) : id \notin Ids(files')) => HandleClearAll]_vars

\* ------------------------------------------------------- pairing at intake
IsRaster(f) == GetExt(f) \in RasterExts

SameBase(f, g) == GetBaseName(f) = GetBaseName(g)

\* the items an upload step has appended
Appended == SubSeq(files', Len(files) + 1, Len(files'))

\* positions in items of the items whose primary file is f / whose preview is f
AsPrimary(items, f) == {k \in 1..Len(items) : items[k].file = f}

AsPreview(items, f) == {k \in 1..Len(items) : items[k].previewFile = Some(f)}

\* the rasters of the selection fs that carry the base name of fs[i]
Partners(fs, i) == {j \in 1..Len(fs) : IsRaster(fs[j]) /\ SameBase(fs[j], fs[i])}

\* the first of them in the order of the selection
FirstPartner(fs, i) == CHOOSE j \in Partners(fs, i) : \A h \in Partners(fs, i) : j <= h

\* positions of the files of fs that some vector of fs takes as its preview
Taken(fs) ==
  {FirstPartner(fs, i) : i \in {v \in 1..Len(fs) : IsVector(fs[v]) /\ Partners(fs, v) # {}}}

Standalone(item) ==
  item.status = "pending" /\ item.previewFile = None /\ item.platformMetadata = NoMetadata

\* C22 as stated: for every vector and every raster of one upload that share a
\* base name, exactly one item holds the vector as primary file and that raster
\* as preview, and no item holds the raster as primary file; every non-vector
\* file that no item holds as preview is the primary file of exactly one
\* pending item without preview.
C22_Original ==
  [][\A fs \in Selections : HandleFileUploadWithin(fs, IntakeItems) =>
       /\ \A i, j \in 1..Len(fs) :
            (IsVector(fs[i]) /\ j \in Partners(fs, i)) =>
              /\ Cardinality(AsPrimary(Appended, fs[i]) \cap AsPreview(Appended, fs[j])) = 1
              /\ AsPrimary(Appended, fs[j]) = {}
       /\ \A j \in 1..Len(fs) :
            (~IsVector(fs[j]) /\ AsPreview(Appended, fs[j]) = {}) =>
              /\ Cardinality(AsPrimary(Appended, fs[j])) = 1
              /\ \A k \in AsPrimary(Appended, fs[j]) : Standalone(Appended[k])]_vars

\* C22: every vector of an upload becomes the primary file of exactly one
\* pending item, whose preview is the first raster of the selection with the
\* vector's base name (none when there is no such raster); a raster taken as a
\* preview gets no item of its own; every other non-vector file, a later raster
\* of the same base name included, is the primary file of exactly one pending
\* item without preview; nothing else is appended.
C22_PairedWithFirst ==
  [][\A fs \in Selections : HandleFileUploadWithin(fs, IntakeItems) =>
       /\ \A i \in 1..Len(fs) :
            IsVector(fs[i]) =>
              /\ Cardinality(AsPrimary(Appended, fs[i])) = 1
              /\ \A k \in AsPrimary(Appended, fs[i]) :
                   /\ Appended[k].status = "pending"
                   /\ Appended[k].previewFile =
                        IF Partners(fs, i) = {} THEN None
                        ELSE Some(fs[FirstPartner(fs, i)])
       /\ \A j \in Taken(fs) : AsPrimary(Appended, fs[j]) = {}
       /\ \A j \in 1..Len(fs) :
            (~IsVector(fs[j]) /\ j \notin Taken(fs)) =>
              /\ Cardinality(AsPrimary(Appended, fs[j])) = 1
              /\ \A k \in AsPrimary(Appended, fs[j]) : Standalone(Appended[k])
       /\ Len(Appended) = Len(fs) - Cardinality(Taken(fs))
       /\ SubSeq(files', 1, Len(files)) = files]_vars

\* photo.eps, photo.JPG and photo.png were uploaded in this order: one item for
\* the vector with photo.JPG as preview, and photo.png as an item of its own
C22_Witness ==
  /\ Len(files) = 2
  /\ files[1].file = File("photo", ".eps")
  /\ files[1].previewFile = Some(File("photo", ".JPG"))
  /\ files[2].file = File("photo", ".png")
  /\ files[2].previewFile = None
  /\ files[2].status = "pending"

\* C27: a raster is the preview of at most one vector of its upload, and every
\* uploaded file appears in exactly one appended item, either as its primary
\* file or as its preview.
C27_EachFileOnce ==
  [][\A fs \in Selections : HandleFileUploadWithin(fs, IntakeItems) =>
       \A j \in 1..Len(fs) :
         /\ Cardinality(AsPreview(Appended, fs[j])) <= 1
         /\ Cardinality(AsPrimary(Appended, fs[j])) + Cardinality(AsPreview(Appended, fs[j])) = 1]_vars

\* photo.JPG is the preview of the items of photo.eps and of photo.ai
C27_SharedPreview ==
  /\ Len(files) = 2
  /\ files[1].file = File("photo", ".eps")
  /\ files[2].file = File("photo", ".ai")
  /\ files[1].previewFile = Some(File("photo", ".JPG"))
  /\ files[2].previewFile = Some(File("photo", ".JPG"))

\* ------------------------------------------------ tasks of one item
\* batch tasks with a provider call in flight for the item id
TasksOn(id) == {pos \in InFlight : run.items[pos].id = id}

\* regenerations in flight for the item id
RegensOn(id) == {k \in 1..Len(regens) : regens[k].id = id}

\* C25: at any moment at most one generation task, batch task or regeneration,
\* is in flight for a given item.
C25_OneTaskPerItem ==
  \A id \in Ids(files) : Cardinality(TasksOn(id)) + Cardinality(RegensOn(id)) <= 1

\* ------------------------------------------- updates of generation tasks
\* a batch task for the item id has started or settled in this step
BatchActs(id) ==
  \E pos \in 1..Len(tasks') :
    /\ run'.items[pos].id = id
    /\ tasks'[pos].pc \notin {"waiting", "skipped"}
    /\ pos > Len(tasks) \/ tasks'[pos].pc # tasks[pos].pc

\* a regeneration of the item id has started or ended in this step
RegenActs(id) == Cardinality(RegensOn(id))' # Cardinality(RegensOn(id))

\* a step of a generation task: its start, or the return of a provider call
TaskStep == <<run, tasks, regens>>' # <<run, tasks, regens>>

\* C26: a step of a generation task keeps the collection's items and their
\* order; an item that no task of the step works on is exactly what it was in
\* the collection current at the step, and an item a task works on changes in
\* status, platformMetadata and error only.
C26_OwnItemOnly ==
  [][TaskStep =>
       /\ Len(files') = Len(files)
       /\ \A i \in 1..Len(files) :
            /\ files'[i].id = files[i].id
            /\ files'[i].file = files[i].file
            /\ files'[i].previewFile = files[i].previewFile
            /\ files'[i] # files[i] => BatchActs(files[i].id) \/ RegenActs(files[i].id)]_vars

\* the run is over: the task of item 1 ended in error, the task of item 2 in
\* complete, and both items show what their own task wrote
C26_Witness ==
  /\ ~isProcessing
  /\ Len(tasks) = 2
  /\ tasks[1].pc = "error" /\ tasks[2].pc = "complete"
  /\ regens = <<>>
  /\ files[1].status = "error" /\ files[1].platformMetadata = NoMetadata
  /\ files[2].status = "complete" /\ files[2].platformMetadata["adobe"] # None

\* ------------------------------------------------ one regeneration pass
\* the regenerations in flight have asked for their platforms in listed order:
\* the results in hand are those of the platforms before the one being asked
RegenInOrder ==
  \A k \in 1..Len(regens) :
    LET t == regens[k] IN
    /\ t.p \in 1..Len(t.platforms)
    /\ \A q \in 1..Len(t.platforms) : t.results[t.platforms[q]] # None <=> q < t.p

\* C29: a regeneration draws one credential of the pool at its start and keeps
\* it, with the platforms selected at that moment, for all its provider calls;
\* it asks for those platforms one after the other in listed order, whether or
\* not the item already holds metadata for them; when the last call returns the
\* item (if still in the collection) is complete and holds the result of every
\* one of those calls, its other platforms untouched; when a call fails the
\* regeneration ends at once, the item is in error and its metadata is as
\* before.
C29_RegenerationPass ==
  /\ [](RegenInOrder)
  /\ [][/\ \A id \in Ids(files) : \A key \in KeyNames :
             (HandleRegenerate(id, key) /\ ~PoolEmpty(apiKeys) /\ selectedPlatforms # <<>>) =>
               /\ key \in Range(apiKeys)
               /\ regens' = Append(regens, [id |-> id, key |-> key,
                                            platforms |-> selectedPlatforms, p |-> 1,
                                            results |-> NoMetadata])
        /\ \A k \in 1..Len(regens) : \A m \in ProviderResults :
             RegenOk(k, m) =>
               LET t == regens[k] IN
               IF t.p < Len(t.platforms)
               THEN /\ Len(regens') = Len(regens)
                    /\ regens'[k].key = t.key
                    /\ regens'[k].platforms = t.platforms
                    /\ regens'[k].id = t.id
                    /\ regens'[k].p = t.p + 1
                    /\ regens'[k].results[t.platforms[t.p]] = Some(m)
                    /\ files' = files
               ELSE /\ regens' = RemoveAt(regens, k)
                    /\ Ids(files') = Ids(files)
                    /\ t.id \in Ids(files) =>
                         LET old == ItemOf(files, t.id)
                             new == ItemOf(files', t.id)
                         IN /\ new.status = "complete"
                            /\ new.platformMetadata[t.platforms[t.p]] = Some(m)
                            /\ \A q \in 1..(t.p - 1) :
                                 new.platformMetadata[t.platforms[q]] = t.results[t.platforms[q]]
                            /\ \A pl \in Platforms \ Range(t.platforms) :
                                 new.platformMetadata[pl] = old.platformMetadata[pl]
        /\ \A k \in 1..Len(regens) : \A msg \in FailureMessages :
             RegenFail(k, msg) =>
               LET t == regens[k] IN
               /\ regens' = RemoveAt(regens, k)
               /\ t.id \in Ids(files) =>
                    /\ ItemOf(files', t.id).status = "error"
                    /\ ItemOf(files', t.id).platformMetadata =
                         ItemOf(files, t.id).platformMetadata]_vars

\* a complete item whose adobe title a bulk edit had rewritten was regenerated:
\* the provider's title is back for adobe, the snapshot of the edit is still
\* the only entry of the history
C29_Witness ==
  /\ Len(files) = 1
  /\ Len(history) = 1
  /\ used = 2
  /\ regens = <<>>
  /\ tasks = <<>>
  /\ files[1].status = "complete"
  /\ \A pl \in Platforms :
       /\ files[1].platformMetadata[pl] # None
       /\ files[1].platformMetadata[pl][1].title = SpecResult.title

\* ------------------------------------- results for items that are gone
\* The page with one credential after the user has unticked Shutterstock and
\* Freepik: single-file uploads, bulk edits, undo, clear all, batch runs and
\* regenerations of up to GoneItems items.
InitGone ==
  /\ files = <<>>
  /\ history = <<>>
  /\ apiKeys = <<"k1">>
  /\ selectedPlatforms = Toggle(Toggle(AllPlatforms, "shutterstock"), "freepik")
  /\ isProcessing = FALSE
  /\ isModalOpen = FALSE
  /\ run = NoRun
  /\ tasks = <<>>
  /\ regens = <<>>
  /\ nextId = 0
  /\ used = 0
  /\ call = NoCall

NextGone ==
  \/ HandleFileUploadWithin(<<File("clip", ".mp4")>>, GoneItems)
  \/ \E ops \in BulkOps : HandleBulkApply(ops)
  \/ HandleUndo
  \/ HandleClearAll
  \/ ProcessBatch
  \/ \E id \in 1..GoneItems : HandleRegenerate(id, "k1")
  \/ \E pos \in 1..GoneItems : BatchOk(pos, SpecResult)
  \/ \E pos \in 1..GoneItems : \E msg \in FailureMessages : BatchFail(pos, msg)
  \/ \E k \in 1..MaxOps : RegenOk(k, SpecResult)
  \/ \E k \in 1..MaxOps : \E msg \in FailureMessages : RegenFail(k, msg)

SpecGone == InitGone /\ [][NextGone]_vars

\* ids of the items for which a generation task is in flight
Pending == {run.items[pos].id : pos \in InFlight} \cup {regens[k].id : k \in 1..Len(regens)}

\* C30: when a provider call of a generation task returns, with a result or a
\* failure, and the task's item is not in the collection, the collection stays
\* as it is: the item is not put back and no other item changes; the updaters
\* that write a task's outcome are the identity on a collection without the id.
C30_LateResultIsNoOp ==
  /\ [](\A id \in Pending \ Ids(files) : \A m \in ProviderResults : \A msg \in FailureMessages :
          /\ SetComplete(files, id, [NoMetadata EXCEPT !["adobe"] = Some(m)]) = files
          /\ SetBatchError(files, id) = files
          /\ SetRegenError(files, id, msg) = files)
  /\ [][/\ \A k \in 1..Len(regens) :
             (regens[k].id \notin Ids(files) /\
                (RegenOk(k, SpecResult) \/ \E msg \in FailureMessages : RegenFail(k, msg)))
               => files' = files
        /\ \A pos \in InFlight :
             (run.items[pos].id \notin Ids(files) /\
                (BatchOk(pos, SpecResult) \/ \E msg \in FailureMessages : BatchFail(pos, msg)))
               => files' = files]_vars

\* item 2 was uploaded after a bulk edit and is being regenerated, its last
\* provider call in flight, when an undo restores the collection of before:
\* item 1 alone
C30_Witness ==
  /\ Len(files) = 1
  /\ files[1].id = 1
  /\ history = <<>>
  /\ Len(regens) = 1
  /\ regens[1].id = 2
  /\ regens[1].p = Len(regens[1].platforms)

\* ------------------------------------------- post-processing of a result
\* Text is a sequence of one-character strings.  The letters, the blank and
\* the tab (whitespace that is not U+0020) are the characters used.
Lower(c) ==
  CASE c = "A" -> "a"
    [] c = "B" -> "b"
    [] c = "P" -> "p"
    [] OTHER -> c

Upper(c) ==
  CASE c = "a" -> "A"
    [] c = "b" -> "B"
    [] c = "p" -> "P"
    [] OTHER -> c

IsSpace(c) == c \in {" ", "\t"}

\* str.toLowerCase().split(' ').map(w => w.charAt(0).toUpperCase() + w.slice(1)).join(' ')
toTitleCase(str) ==
  [i \in 1..Len(str) |->
     IF i = 1 \/ str[i - 1] = " " THEN Upper(Lower(str[i])) ELSE Lower(str[i])]

\* stand-in of " - High Quality Stock Photo" for titles of a few characters
Filler == <<" ", "-", " ", "P">>

\* cut.lastIndexOf(" "), counted from 0; -1 when cut holds no blank
LastIndexOfBlank(cut) ==
  LET hits == {i \in 1..Len(cut) : cut[i] = " "}
  IN IF hits = {} THEN -1 ELSE (CHOOSE i \in hits : \A h \in hits : h <= i) - 1

\* s.substring(0, n) for n <= s.length: a negative n counts as 0
Substring(s, n) == SubSeq(s, 1, IF n < 0 THEN 0 ELSE Min(n, Len(s)))

\* a truncation that always cuts at the limit
MutTruncate(title, titleMax) == Substring(title, titleMax)

\* cut = title.substring(0, titleMax);
\* cut.substring(0, Math.min(cut.length, cut.lastIndexOf(" "))) || cut
Truncate(title, titleMax) ==
  LET cut == Substring(title, titleMax)
      head == Substring(cut, Min(Len(cut), LastIndexOfBlank(cut)))
  IN IF head # <<>> THEN head ELSE cut

Pad(title, config) == IF Len(title) < config.titleMin THEN title \o Filler ELSE title

Limit(title, config) ==
  IF Len(title) > config.titleMax THEN Truncate(title, config.titleMax) ELSE title

\* the title of each adapter before the limit is applied: Gemini cases and
\* pads, Mistral cases, Groq pads
Prepared(provider, raw, config, settings) ==
  LET cased == IF settings.enforceTitleCase THEN toTitleCase(raw) ELSE raw IN
  CASE provider = "gemini" -> Pad(cased, config)
    [] provider = "mistral" -> cased
    [] provider = "groq" -> Pad(raw, config)

\* the title each adapter returns for the raw title
PostTitle(provider, raw, config, settings) ==
  Limit(Prepared(provider, raw, config, settings), config)

\* k.toLowerCase() on the keywords used
KwLower(k) ==
  CASE k = "Sky" -> "sky"
    [] k = "Blue Sky" -> "blue sky"
    [] OTHER -> k

\* k.trim() on the keywords used
KwTrim(k) ==
  CASE k = " sky" -> "sky"
    [] OTHER -> k

\* k.length > 1
LongerThanOne(k) == k \notin {"", "a"}

\* k.split(/\s+/)
KwSplit(k) == IF k = "blue sky" THEN <<"blue", "sky">> ELSE <<k>>

\* k.includes(bad)
KwIncludes(k, bad) == bad = k \/ (k = "blue sky" /\ bad \in {"blue", "sky"})

RECURSIVE FlatMapSplit(_)
FlatMapSplit(ks) ==
  IF ks = <<>> THEN <<>> ELSE KwSplit(Head(ks)) \o FlatMapSplit(Tail(ks))

\* the keywords every adapter returns
PostKeywords(raw, settings) ==
  LET cleaned == SelectSeq([i \in 1..Len(raw) |-> KwTrim(KwLower(raw[i]))], LongerThanOne)
      text == settings.prohibitedWordsText
      \* prohibitedWordsText.split(/[,;\n]/).map(w => w.trim().toLowerCase()).filter(Boolean)
      prohibited == SelectSeq([i \in 1..Len(text) |-> KwLower(KwTrim(text[i]))],
                              LAMBDA w : w # "")
      Allowed(k) == ~\E j \in 1..Len(prohibited) : KwIncludes(k, prohibited[j])
      filtered == IF settings.enableProhibitedWords /\ text # <<>>
                  THEN SelectSeq(cleaned, Allowed) ELSE cleaned
      single == IF settings.enableSingleWordKeywords THEN FlatMapSplit(filtered) ELSE filtered
      unique == Dedupe(single)
  IN SubSeq(unique, 1, Min(settings.maxKeywords, Len(unique)))

\* description.substring(0, config.descMax - 3) + "..."
PostDescription(raw, config) ==
  IF Len(raw) > config.descMax
  THEN Substring(raw, config.descMax - 3) \o <<".", ".", ".">>
  ELSE raw

\* what generateMetadataForPlatform, ...Mistral and ...Groq return for the
\* parsed reply json
PostProcess(provider, json, config, settings) ==
  [title |-> PostTitle(provider, json.title, config, settings),
   description |-> PostDescription(json.description, config),
   keywords |-> PostKeywords(json.keywords, settings)]

\* Replies the model may give, and the configuration and settings in force.
TitleChars == {"a", "B", " ", "\t"}

SeqsUpTo(S, n) == UNION {[1..k -> S] : k \in 0..n}

RawKeywords == {"sky", "Sky", " sky", "a", "Blue Sky", "fox"}

\* stand-ins of PLATFORM_CONFIGS for texts of a few characters: a platform
\* whose padded title passes the limit and one whose padded title fits
PostConfigs ==
  { [titleMin |-> 2, titleMax |-> 3, descMax |-> 4],
    [titleMin |-> 2, titleMax |-> 6, descMax |-> 3] }

DefaultSettings ==
  [enforceTitleCase |-> TRUE, enableProhibitedWords |-> FALSE, prohibitedWordsText |-> <<>>,
   enableSingleWordKeywords |-> FALSE, maxKeywords |-> 2]

DefaultReply == [title |-> <<"a">>, description |-> <<"d">>, keywords |-> <<"sky">>]

\* one part of the reply varies at a time: the three parts are processed
\* independently of each other
RequestsWithin(maxTitle, maxKeywords, maxDesc) ==
  { [json |-> [DefaultReply EXCEPT !.title = t], config |-> c,
     settings |-> [DefaultSettings EXCEPT !.enforceTitleCase = e]] :
       t \in SeqsUpTo(TitleChars, maxTitle), c \in PostConfigs, e \in BOOLEAN }
  \cup
  { [json |-> [DefaultReply EXCEPT !.keywords = ks], config |-> c,
     settings |-> [DefaultSettings EXCEPT !.enableProhibitedWords = pw[1],
                                          !.prohibitedWordsText = pw[2],
                                          !.enableSingleWordKeywords = sw,
                                          !.maxKeywords = mk]] :
       ks \in SeqsUpTo(RawKeywords, maxKeywords), c \in PostConfigs,
       pw \in {<<FALSE, <<"Sky">>>>, <<TRUE, <<>>>>, <<TRUE, <<"Sky">>>>},
       sw \in BOOLEAN, mk \in {1, 2} }
  \cup
  { [json |-> [DefaultReply EXCEPT !.description = [i \in 1..n |-> "d"]], config |-> c,
     settings |-> DefaultSettings] :
       n \in 0..maxDesc, c \in PostConfigs }

InitPost ==
  /\ files = <<>>
  /\ history = <<>>
  /\ apiKeys = <<"k1">>
  /\ selectedPlatforms = AllPlatforms
  /\ isProcessing = FALSE
  /\ isModalOpen = FALSE
  /\ run = NoRun
  /\ tasks = <<>>
  /\ regens = <<>>
  /\ nextId = 0
  /\ used = 0
  /\ call \in { [pc |-> "reply", provider |-> provider, json |-> r.json, config |-> r.config,
                 settings |-> r.settings, metadata |-> None] :
                  provider \in Providers,
                  r \in RequestsWithin(MaxTitle, MaxRawKeywords, MaxDesc) }

\* JSON.parse has succeeded: the adapter post-processes and returns
ReturnMetadata(provider) ==
  /\ call.pc = "reply"
  /\ call.provider = provider
  /\ call' = [call EXCEPT !.pc = "metadata",
                          !.metadata = Some(PostProcess(provider, call.json, call.config,
                                                        call.settings))]
  /\ UNCHANGED <<files, history, apiKeys, selectedPlatforms, isProcessing, isModalOpen,
                 run, tasks, regens, nextId, used>>

NextPost == \E provider \in Providers : ReturnMetadata(provider)

SpecPost == InitPost /\ [][NextPost]_vars

Returned == call.pc = "metadata"

\* C23: the Metadata an adapter returns has no two keywords that are equal
\* when case is ignored, at most settings.maxKeywords keywords and a
\* description of at most descMax characters.
C23_PostProcessedBounds ==
  Returned =>
    LET m == call.metadata[1] IN
    /\ \A i, j \in 1..Len(m.keywords) :
         KwLower(m.keywords[i]) = KwLower(m.keywords[j]) => i = j
    /\ Len(m.keywords) <= call.settings.maxKeywords
    /\ Len(m.description) <= call.config.descMax

\* Sky, " sky" and Blue Sky with single-word keywords: sky once, then blue
C23_Witness ==
  /\ Returned
  /\ call.json.keywords = <<"Sky", " sky", "Blue Sky">>
  /\ call.settings.enableSingleWordKeywords
  /\ call.settings.maxKeywords = 2
  /\ ~call.settings.enableProhibitedWords
  /\ call.metadata[1].keywords = <<"sky", "blue">>

\* positions of whitespace among the first n characters of t
SpacesWithin(t, n) == {i \in 1..Min(n, Len(t)) : IsSpace(t[i])}

\* C24: a title that exceeds titleMax after casing and padding is cut at the
\* last whitespace among its first titleMax characters, so that the result has
\* at most titleMax characters and ends where a word ends; it is cut at
\* titleMax exactly only when those characters hold no whitespace.
C24_WordBoundary ==
  Returned =>
    LET t == Prepared(call.provider, call.json.title, call.config, call.settings)
        n == call.config.titleMax
        r == call.metadata[1].title
        ws == SpacesWithin(t, n)
    IN Len(t) > n =>
         /\ Len(r) <= n
         /\ IF ws = {} THEN r = SubSeq(t, 1, n)
            ELSE r = SubSeq(t, 1, (CHOOSE i \in ws : \A h \in ws : h <= i) - 1)

\* a tab is the only whitespace of the first titleMax characters and the
\* returned title stops inside the word that follows it
C24_MidWord ==
  /\ Returned
  /\ call.provider = "gemini"
  /\ ~call.settings.enforceTitleCase
  /\ call.json.title = <<"a", "\t", "a", "a">>
  /\ call.config.titleMax = 3
  /\ call.metadata[1].title = <<"a", "\t", "a">>

\* C28: for one reply, configuration and settings the three adapters return
\* the same Metadata.
C28_AdaptersAgree ==
  Returned =>
    \A provider \in Providers :
      PostProcess(provider, call.json, call.config, call.settings) = call.metadata[1]

\* the short title "a" under limits 2 to 6: Gemini returns it padded
C28_PaddedByGemini ==
  /\ Returned
  /\ call.provider = "gemini"
  /\ call.json.title = <<"a">>
  /\ call.config.titleMax = 6
  /\ call.metadata[1].title = <<"A">> \o Filler
  /\ PostProcess("mistral", call.json, call.config, call.settings).title = <<"A">>
  /\ PostProcess("groq", call.json, call.config, call.settings).title = <<"a">> \o Filler

====
